---- MODULE Spec2Model ----
(***************************************************************************)
(* NTT-friendly prime search (src/src/primes/core.rs, naive.rs).           *)
(*                                                                         *)
(* Every function of the crate is a pure computation over u64 values.      *)
(* The word is modelled W bits wide (64 in the source).  Rust's integer    *)
(* arithmetic depends on the build profile: with overflow checks (debug)   *)
(* an overflowing +, -, * or << panics, without them (release) the result  *)
(* wraps modulo 2^W; a remainder or division by zero panics in both.  The  *)
(* profile is the state variable overflow_checks.                          *)
(***************************************************************************)
EXTENDS Integers, Sequences, FiniteSets, TLC

VARIABLES
    overflow_checks,  \* build profile: TRUE = overflow panics, FALSE = wraps
    fn,               \* the function invoked ("idle" before the call)
    args,             \* its arguments
    ret,              \* its outcome: [tag |-> "ok", val |-> ...] or a panic
    pc,               \* position inside prime_factors (stepwise execution)
    pf_n,             \* prime_factors: local n
    pf_i,             \* prime_factors: local i
    pf_factors        \* prime_factors: local factors

vars == <<overflow_checks, fn, args, ret, pc, pf_n, pf_i, pf_factors>>

\* Word width of the model (u64 in the source).
W == 5
\* Largest count passed to get_primes_down.
MaxCount == 4

RECURSIVE Pow2(_)
Pow2(k) == IF k = 0 THEN 1 ELSE 2 * Pow2(k - 1)

MaxU == Pow2(W) - 1
Word == 0..MaxU
\* logq is a u32: values of W and above are legal arguments whose 2^logq
\* does not fit the word.
LogqRange == 0..(W + 1)

(***************************************************************************)
(* Outcomes.                                                               *)
(***************************************************************************)
Ok(v) == [tag |-> "ok", val |-> v]
\* A returned bool.
OkBool(b) == [tag |-> "ok", bool |-> b]
Panic == [tag |-> "panic", val |-> <<>>]
Hang == [tag |-> "hang", val |-> <<>>]
None == <<>>
Some(x) == <<x>>

\* Outcome of a trapping arithmetic operation; every u64 is >= 0.
Trap == -1
\* A loop that never exits.
Loops == -2

(***************************************************************************)
(* u64 arithmetic.                                                         *)
(***************************************************************************)
mul_u64(chk, a, b) ==
    IF a * b <= MaxU THEN a * b
    ELSE IF chk THEN Trap ELSE (a * b) % Pow2(W)

add_u64(chk, a, b) ==
    IF a + b <= MaxU THEN a + b
    ELSE IF chk THEN Trap ELSE (a + b) % Pow2(W)

sub_u64(chk, a, b) ==
    IF a >= b THEN a - b
    ELSE IF chk THEN Trap ELSE a - b + Pow2(W)

rem_u64(a, b) == IF b = 0 THEN Trap ELSE a % b

div_u64(a, b) == IF b = 0 THEN Trap ELSE a \div b

\* a << s: an s of the word width or more panics with overflow checks and
\* is reduced modulo the width without them.
shl_u64(chk, a, s) ==
    IF s < W THEN (a * Pow2(s)) % Pow2(W)
    ELSE IF chk THEN Trap ELSE (a * Pow2(s % W)) % Pow2(W)

(***************************************************************************)
(* core.rs: is_prime                                                       *)
(***************************************************************************)
RECURSIVE is_prime_loop(_, _, _)
is_prime_loop(chk, n, i) ==
    LET sq == mul_u64(chk, i, i) IN
    IF sq = Trap THEN Panic
    ELSE IF sq <= n
         THEN IF n % i = 0 THEN OkBool(FALSE)
              ELSE LET j == add_u64(chk, i, 2) IN
                   IF j = Trap THEN Panic ELSE is_prime_loop(chk, n, j)
         ELSE OkBool(TRUE)

is_prime(chk, n) ==
    IF n < 2 THEN OkBool(FALSE)
    ELSE IF n = 2 THEN OkBool(TRUE)
    ELSE IF n % 2 = 0 THEN OkBool(FALSE)
    ELSE is_prime_loop(chk, n, 3)

(***************************************************************************)
(* core.rs: mod_exp                                                        *)
(***************************************************************************)
\* Mutant: the product formed in the word itself, wrapping before the reduction.
mulmod_narrow(a, b, modulus) == ((a * b) % Pow2(W)) % modulus

\* (a as u128 * b as u128 % modulus as u128) as u64
mulmod_wide(a, b, modulus) == (((a * b) % Pow2(2 * W)) % modulus) % Pow2(W)

Max2(a, b) == IF a >= b THEN a ELSE b

\* The loop of mod_exp; peak is the largest product formed so far.
RECURSIVE mod_exp_loop(_, _, _, _, _)
mod_exp_loop(result, base, exp, modulus, peak) ==
    IF exp > 0
    THEN LET odd == exp % 2 = 1
             r == IF odd THEN mulmod_wide(result, base, modulus) ELSE result
             p == Max2(Max2(peak, base * base), IF odd THEN result * base ELSE 0)
         IN mod_exp_loop(r, mulmod_wide(base, base, modulus), exp \div 2, modulus, p)
    ELSE [tag |-> "ok", val |-> result, peak |-> peak]

mod_exp(base, exp, modulus) ==
    IF modulus = 1 THEN [tag |-> "ok", val |-> 0, peak |-> 0]
    ELSE IF modulus = 0 THEN Panic
    ELSE mod_exp_loop(1, base % modulus, exp, modulus, 0)

(***************************************************************************)
(* core.rs: is_ntt_friendly_prime                                          *)
(***************************************************************************)
\* Mutant: the range guard left out.
is_ntt_friendly_prime_unguarded(chk, q, n) ==
    LET two_n == mul_u64(chk, 2, n) IN
    IF two_n = Trap THEN Panic
    ELSE LET r == rem_u64(q, two_n) IN
         IF r = Trap THEN Panic
         ELSE IF r = 1 THEN is_prime(chk, q) ELSE OkBool(FALSE)

is_ntt_friendly_prime(chk, q, n) ==
    IF q < 2 \/ n < 1 THEN OkBool(FALSE)
    ELSE LET two_n == mul_u64(chk, 2, n) IN
         IF two_n = Trap THEN Panic
         ELSE LET r == rem_u64(q, two_n) IN
              IF r = Trap THEN Panic
              ELSE IF r = 1 THEN is_prime(chk, q) ELSE OkBool(FALSE)

(***************************************************************************)
(* core.rs: prime_factors                                                  *)
(***************************************************************************)
contains(s, x) == \E k \in 1..Len(s) : s[k] = x

\* while n % d == 0 { n /= d }: the value of n at exit; the loop never exits
\* when dividing leaves n unchanged (n == 0, or d == 1).
RECURSIVE strip(_, _)
strip(n, d) ==
    IF d = 0 THEN Trap
    ELSE IF n % d # 0 THEN n
    ELSE IF n \div d = n THEN Loops
    ELSE strip(n \div d, d)

push_once(factors, n, d) ==
    IF n % d = 0 /\ ~contains(factors, d) THEN Append(factors, d) ELSE factors

\* Mutant: the cofactor left after trial division is forgotten.
prime_factors_tail_dropped(n, factors) == factors

\* if n > 1 && !factors.contains(&n) { factors.push(n); }
prime_factors_tail(n, factors) ==
    IF n > 1 /\ ~contains(factors, n) THEN Append(factors, n) ELSE factors

RECURSIVE prime_factors_odd(_, _, _, _)
prime_factors_odd(chk, n, i, factors) ==
    LET sq == mul_u64(chk, i, i) IN
    IF sq = Trap THEN Panic
    ELSE IF sq <= n
         THEN LET m == strip(n, i)
                  j == add_u64(chk, i, 2)
              IN IF m = Trap THEN Panic
                 ELSE IF m = Loops THEN Hang
                 ELSE IF j = Trap THEN Panic
                 ELSE prime_factors_odd(chk, m, j, push_once(factors, n, i))
         ELSE Ok(prime_factors_tail(n, factors))

prime_factors(chk, n) ==
    LET m == strip(n, 2) IN
    IF m = Loops THEN Hang
    ELSE prime_factors_odd(chk, m, 3, push_once(<<>>, n, 2))

(***************************************************************************)
(* core.rs: is_generator                                                   *)
(***************************************************************************)
RECURSIVE is_generator_loop(_, _, _, _, _)
is_generator_loop(g, p, phi, factors, k) ==
    IF k > Len(factors) THEN OkBool(TRUE)
    ELSE LET e == mod_exp(g, phi \div factors[k], p) IN
         IF e.tag # "ok" THEN Panic
         ELSE IF e.val = 1 THEN OkBool(FALSE)
         ELSE is_generator_loop(g, p, phi, factors, k + 1)

is_generator(chk, g, p) ==
    LET phi == sub_u64(chk, p, 1) IN
    IF phi = Trap THEN Panic
    ELSE LET f == prime_factors(chk, phi) IN
         IF f.tag # "ok" THEN f
         ELSE is_generator_loop(g, p, phi, f.val, 1)

(***************************************************************************)
(* core.rs: find_primitive_root                                            *)
(***************************************************************************)
\* Mutant: the generator raised to phi / n.
root_exponent_half(phi, two_n) == div_u64(phi, two_n \div 2)

\* phi / two_n
root_exponent(phi, two_n) == div_u64(phi, two_n)

\* for candidate in 2..q
RECURSIVE find_primitive_root_scan(_, _, _, _, _)
find_primitive_root_scan(chk, q, phi, two_n, candidate) ==
    IF candidate >= q THEN Ok(None)
    ELSE LET gen == is_generator(chk, candidate, q) IN
         IF gen.tag # "ok" THEN gen
         ELSE IF gen.bool
              THEN LET x == root_exponent(phi, two_n)
                       e == mod_exp(candidate, x, q)
                   IN IF x = Trap \/ e.tag # "ok" THEN Panic ELSE Ok(Some(e.val))
              ELSE find_primitive_root_scan(chk, q, phi, two_n, candidate + 1)

find_primitive_root(chk, q, n) ==
    LET friendly == is_ntt_friendly_prime(chk, q, n) IN
    IF friendly.tag # "ok" THEN Panic
    ELSE IF ~friendly.bool THEN Ok(None)
    ELSE LET two_n == mul_u64(chk, 2, n)
             phi == sub_u64(chk, q, 1)
         IN IF two_n = Trap \/ phi = Trap THEN Panic
            ELSE find_primitive_root_scan(chk, q, phi, two_n, 2)

(***************************************************************************)
(* naive.rs: get_first_prime_down                                          *)
(***************************************************************************)
OkTrace(v, cands) == [tag |-> "ok", val |-> v, cands |-> cands]

\* Mutant: the candidate above target_bits is kept.
first_candidate_unadjusted(chk, target_bits, two_n) ==
    LET r == rem_u64(target_bits, two_n) IN
    IF r = Trap THEN Trap
    ELSE LET d == sub_u64(chk, target_bits, r) IN
         IF d = Trap THEN Trap ELSE add_u64(chk, d, 1)

\* The largest number <= target_bits that is 1 modulo two_n.
first_candidate(chk, target_bits, two_n) ==
    LET r == rem_u64(target_bits, two_n) IN
    IF r = Trap THEN Trap
    ELSE LET d == sub_u64(chk, target_bits, r) IN
         IF d = Trap THEN Trap
         ELSE LET c == add_u64(chk, d, 1) IN
              IF c = Trap THEN Trap
              ELSE IF c > target_bits THEN sub_u64(chk, c, two_n) ELSE c

\* while candidate > 1 { ... candidate -= two_n }; cands lists the values
\* candidate has taken.
RECURSIVE first_prime_down_loop(_, _, _, _)
first_prime_down_loop(chk, two_n, candidate, cands) ==
    IF candidate > 1
    THEN LET pr == is_prime(chk, candidate) IN
         IF pr.tag # "ok" THEN Panic
         ELSE IF pr.bool THEN OkTrace(Some(candidate), cands)
         ELSE LET c == sub_u64(chk, candidate, two_n) IN
              IF c = Trap THEN Panic
              ELSE first_prime_down_loop(chk, two_n, c, Append(cands, c))
    ELSE OkTrace(None, cands)

get_first_prime_down(chk, logq, n) ==
    IF logq < 2 \/ n < 1 THEN OkTrace(None, <<>>)
    ELSE LET two_n == mul_u64(chk, 2, n)
             target_bits == shl_u64(chk, 1, logq)
         IN IF two_n = Trap \/ target_bits = Trap THEN Panic
            ELSE LET c == first_candidate(chk, target_bits, two_n) IN
                 IF c = Trap THEN Panic
                 ELSE first_prime_down_loop(chk, two_n, c, <<c>>)

(***************************************************************************)
(* naive.rs: get_primes_down                                               *)
(***************************************************************************)
\* Mutant: the loop runs while primes.len() <= count.
RECURSIVE get_primes_down_loop_one_more(_, _, _, _, _, _)
get_primes_down_loop_one_more(chk, two_n, count, primes, candidate, cands) ==
    IF Len(primes) <= count /\ candidate > 1
    THEN LET pr == is_prime(chk, candidate) IN
         IF pr.tag # "ok" THEN Panic
         ELSE LET c == sub_u64(chk, candidate, two_n) IN
              IF c = Trap THEN Panic
              ELSE get_primes_down_loop_one_more(chk, two_n, count,
                       IF pr.bool THEN Append(primes, candidate) ELSE primes,
                       c, Append(cands, c))
    ELSE OkTrace(primes, cands)

RECURSIVE get_primes_down_loop(_, _, _, _, _, _)
get_primes_down_loop(chk, two_n, count, primes, candidate, cands) ==
    IF Len(primes) < count /\ candidate > 1
    THEN LET pr == is_prime(chk, candidate) IN
         IF pr.tag # "ok" THEN Panic
         ELSE LET c == sub_u64(chk, candidate, two_n) IN
              IF c = Trap THEN Panic
              ELSE get_primes_down_loop(chk, two_n, count,
                       IF pr.bool THEN Append(primes, candidate) ELSE primes,
                       c, Append(cands, c))
    ELSE OkTrace(primes, cands)

get_primes_down(chk, logq, n, count) ==
    LET first == get_first_prime_down(chk, logq, n) IN
    IF first.tag # "ok" THEN Panic
    ELSE IF first.val = None THEN OkTrace(<<>>, first.cands)
    ELSE LET first_prime == first.val[1]
             two_n == mul_u64(chk, 2, n)
         IN IF two_n = Trap THEN Panic
            ELSE LET c == sub_u64(chk, first_prime, two_n) IN
                 IF c = Trap THEN Panic
                 ELSE get_primes_down_loop(chk, two_n, count, <<first_prime>>,
                                           c, Append(first.cands, c))

(***************************************************************************)
(* One invocation of a function of the library on arguments of the word.   *)
(***************************************************************************)
Idle == fn = "idle"

Init ==
    /\ overflow_checks \in BOOLEAN
    /\ fn = "idle"
    /\ args = <<>>
    /\ ret = [tag |-> "none", val |-> <<>>]
    /\ pc = "idle"
    /\ pf_n = 0
    /\ pf_i = 0
    /\ pf_factors = <<>>

CallIsPrime ==
    /\ Idle /\ pc = "idle"
    /\ \E n \in Word :
          /\ fn' = "is_prime"
          /\ args' = <<n>>
          /\ ret' = is_prime(overflow_checks, n)
    /\ UNCHANGED <<overflow_checks, pc, pf_n, pf_i, pf_factors>>

CallModExp ==
    /\ Idle /\ pc = "idle"
    /\ \E base \in Word, exp \in Word, modulus \in Word :
          /\ fn' = "mod_exp"
          /\ args' = <<base, exp, modulus>>
          /\ ret' = mod_exp(base, exp, modulus)
    /\ UNCHANGED <<overflow_checks, pc, pf_n, pf_i, pf_factors>>

CallIsNttFriendlyPrime ==
    /\ Idle /\ pc = "idle"
    /\ \E q \in Word, n \in Word :
          /\ fn' = "is_ntt_friendly_prime"
          /\ args' = <<q, n>>
          /\ ret' = is_ntt_friendly_prime(overflow_checks, q, n)
    /\ UNCHANGED <<overflow_checks, pc, pf_n, pf_i, pf_factors>>

CallFindPrimitiveRoot ==
    /\ Idle /\ pc = "idle"
    /\ \E q \in Word, n \in Word :
          /\ fn' = "find_primitive_root"
          /\ args' = <<q, n>>
          /\ ret' = find_primitive_root(overflow_checks, q, n)
    /\ UNCHANGED <<overflow_checks, pc, pf_n, pf_i, pf_factors>>

CallGetFirstPrimeDown ==
    /\ Idle /\ pc = "idle"
    /\ \E logq \in LogqRange, n \in Word :
          /\ fn' = "get_first_prime_down"
          /\ args' = <<logq, n>>
          /\ ret' = get_first_prime_down(overflow_checks, logq, n)
    /\ UNCHANGED <<overflow_checks, pc, pf_n, pf_i, pf_factors>>

CallGetPrimesDown ==
    /\ Idle /\ pc = "idle"
    /\ \E logq \in LogqRange, n \in Word, count \in 0..MaxCount :
          /\ fn' = "get_primes_down"
          /\ args' = <<logq, n, count>>
          /\ ret' = get_primes_down(overflow_checks, logq, n, count)
    /\ UNCHANGED <<overflow_checks, pc, pf_n, pf_i, pf_factors>>

Next ==
    \/ CallIsPrime
    \/ CallIsNttFriendlyPrime
    \/ CallFindPrimitiveRoot
    \/ CallGetFirstPrimeDown
    \/ CallGetPrimesDown

Spec == Init /\ [][Next]_vars

ModExpNext == CallModExp

ModExpSpec == Init /\ [][ModExpNext]_vars

(***************************************************************************)
(* prime_factors and is_generator executed statement by statement: the     *)
(* program is single-threaded and always executes its next statement.      *)
(***************************************************************************)
StartPrimeFactors ==
    /\ Idle /\ pc = "idle"
    /\ \E n \in Word :
          /\ fn' = "prime_factors"
          /\ args' = <<n>>
          /\ pf_n' = n
    /\ pf_factors' = <<>>
    /\ pc' = "strip2_test"
    /\ UNCHANGED <<overflow_checks, ret, pf_i>>

\* is_generator: let phi = p - 1; let factors = prime_factors(phi);
StartIsGenerator ==
    /\ Idle /\ pc = "idle"
    /\ \E g \in Word, p \in Word :
          LET phi == sub_u64(overflow_checks, p, 1) IN
          /\ fn' = "is_generator"
          /\ args' = <<g, p>>
          /\ IF phi = Trap
             THEN pc' = "done" /\ ret' = Panic /\ pf_n' = pf_n
             ELSE pc' = "strip2_test" /\ ret' = ret /\ pf_n' = phi
    /\ pf_factors' = <<>>
    /\ UNCHANGED <<overflow_checks, pf_i>>

\* while n % 2 == 0
Strip2Test ==
    /\ pc = "strip2_test"
    /\ IF pf_n % 2 = 0
       THEN pc' = "strip2_body" /\ pf_i' = pf_i
       ELSE pc' = "odd_test" /\ pf_i' = 3
    /\ UNCHANGED <<overflow_checks, fn, args, ret, pf_n, pf_factors>>

\* { if !factors.contains(&2) { factors.push(2); } n /= 2; }
Strip2Body ==
    /\ pc = "strip2_body"
    /\ pf_factors' = IF contains(pf_factors, 2) THEN pf_factors ELSE Append(pf_factors, 2)
    /\ pf_n' = pf_n \div 2
    /\ pc' = "strip2_test"
    /\ UNCHANGED <<overflow_checks, fn, args, ret, pf_i>>

\* while i * i <= n
OddTest ==
    /\ pc = "odd_test"
    /\ LET sq == mul_u64(overflow_checks, pf_i, pf_i) IN
       IF sq = Trap THEN pc' = "done" /\ ret' = Panic
       ELSE IF sq <= pf_n THEN pc' = "odd_inner_test" /\ ret' = ret
       ELSE pc' = "tail" /\ ret' = ret
    /\ UNCHANGED <<overflow_checks, fn, args, pf_n, pf_i, pf_factors>>

\* while n % i == 0
OddInnerTest ==
    /\ pc = "odd_inner_test"
    /\ LET r == rem_u64(pf_n, pf_i) IN
       IF r = Trap THEN pc' = "done" /\ ret' = Panic
       ELSE IF r = 0 THEN pc' = "odd_inner_body" /\ ret' = ret
       ELSE pc' = "odd_step" /\ ret' = ret
    /\ UNCHANGED <<overflow_checks, fn, args, pf_n, pf_i, pf_factors>>

\* { if !factors.contains(&i) { factors.push(i); } n /= i; }
OddInnerBody ==
    /\ pc = "odd_inner_body"
    /\ pf_factors' = IF contains(pf_factors, pf_i) THEN pf_factors ELSE Append(pf_factors, pf_i)
    /\ pf_n' = pf_n \div pf_i
    /\ pc' = "odd_inner_test"
    /\ UNCHANGED <<overflow_checks, fn, args, ret, pf_i>>

\* i += 2
OddStep ==
    /\ pc = "odd_step"
    /\ LET j == add_u64(overflow_checks, pf_i, 2) IN
       IF j = Trap THEN pc' = "done" /\ ret' = Panic /\ pf_i' = pf_i
       ELSE pc' = "odd_test" /\ ret' = ret /\ pf_i' = j
    /\ UNCHANGED <<overflow_checks, fn, args, pf_n, pf_factors>>

\* if n > 1 && !factors.contains(&n) { factors.push(n); } factors
\* and, in is_generator, the loop over the factors.
Finish ==
    /\ pc = "tail"
    /\ LET f == prime_factors_tail(pf_n, pf_factors)
       IN /\ pf_factors' = f
          /\ ret' = IF fn = "prime_factors" THEN Ok(f)
                    ELSE is_generator_loop(args[1], args[2],
                             sub_u64(overflow_checks, args[2], 1), f, 1)
    /\ pc' = "done"
    /\ UNCHANGED <<overflow_checks, fn, args, pf_n, pf_i>>

TermNext ==
    \/ StartPrimeFactors
    \/ StartIsGenerator
    \/ Strip2Test
    \/ Strip2Body
    \/ OddTest
    \/ OddInnerTest
    \/ OddInnerBody
    \/ OddStep
    \/ Finish

TermSpec == Init /\ [][TermNext]_vars /\ WF_vars(TermNext)

\* The stepwise execution and the operator prime_factors agree.
StepwiseAgrees ==
    (pc = "done" /\ fn = "prime_factors") =>
        /\ ret.tag = prime_factors(overflow_checks, args[1]).tag
        /\ ret.tag = "ok" => ret.val = prime_factors(overflow_checks, args[1]).val

(***************************************************************************)
(* Reference arithmetic, by definition rather than by algorithm.           *)
(***************************************************************************)
IsPrimeMath(p) == p >= 2 /\ \A d \in 2..(p - 1) : p % d # 0

RECURSIVE PowMod(_, _, _)
PowMod(b, e, m) == IF e = 0 THEN 1 % m ELSE (b * PowMod(b, e - 1, m)) % m

\* g has multiplicative order exactly m modulo q.
HasOrder(g, q, m) == PowMod(g, m, q) = 1 /\ \A k \in 1..(m - 1) : PowMod(g, k, q) # 1

ProperDivisors(m) == {d \in 1..(m - 1) : m % d = 0}

\* The primes p <= 2^logq with p mod 2n == 1.
Qualifying(logq, n) == {p \in 2..Pow2(logq) : p % (2 * n) = 1 /\ IsPrimeMath(p)}

SetMax(S) == CHOOSE x \in S : \A y \in S : y <= x

RECURSIVE Descending(_)
Descending(S) == IF S = {} THEN <<>> ELSE <<SetMax(S)>> \o Descending(S \ {SetMax(S)})

Take(s, k) == SubSeq(s, 1, IF k <= Len(s) THEN k ELSE Len(s))

\* 2^logq and 2n fit the word.
InWord(logq, n) == logq < W /\ 2 * n <= MaxU

(***************************************************************************)
(* C1: for logq >= 2 and n >= 1 with 2^logq and 2n inside the word,        *)
(* get_first_prime_down(logq, n) returns None exactly when no prime        *)
(* p <= 2^logq with p mod 2n == 1 exists, and otherwise returns the        *)
(* largest such prime.                                                     *)
(***************************************************************************)
C1_FirstPrimeDownIsLargest ==
    (fn = "get_first_prime_down" /\ args[1] >= 2 /\ args[2] >= 1
         /\ InWord(args[1], args[2])) =>
        LET S == Qualifying(args[1], args[2]) IN
        /\ ret.tag = "ok"
        /\ (ret.val = None) <=> (S = {})
        /\ S # {} => ret.val = Some(SetMax(S))

\* A search that stepped over at least one composite candidate and found a prime.
C1_Witness ==
    /\ fn = "get_first_prime_down" /\ args[1] >= 2 /\ args[2] >= 1
    /\ InWord(args[1], args[2])
    /\ ret.tag = "ok" /\ ret.val # None /\ Len(ret.cands) >= 2

(***************************************************************************)
(* C2: get_primes_down(logq, n, count) returns, for every count >= 0       *)
(* (count == 0 included), a strictly descending sequence of length         *)
(* <= count whose elements are primes p <= 2^logq with p mod 2n == 1.      *)
(* Stated on the arguments whose 2^logq and 2n fit the word, where no      *)
(* arithmetic of the search overflows.                                     *)
(***************************************************************************)
C2_AtMostCountDescending ==
    (fn = "get_primes_down" /\ ret.tag = "ok" /\ args[2] >= 1
         /\ InWord(args[1], args[2])) =>
        /\ Len(ret.val) <= args[3]
        /\ \A k \in 1..(Len(ret.val) - 1) : ret.val[k] > ret.val[k + 1]
        /\ \A k \in 1..Len(ret.val) : ret.val[k] \in Qualifying(args[1], args[2])

(***************************************************************************)
(* C3 as claimed: for every q and n, if find_primitive_root(q, n) returns  *)
(* Some(psi) then mod_exp(psi, 2n, q) == 1 and mod_exp(psi, d, q) != 1     *)
(* for every divisor d < 2n of 2n.                                         *)
(***************************************************************************)
RootHasOrderTwoN ==
    LET psi == ret.val[1]
        q == args[1]
        two_n == 2 * args[2]
    IN /\ mod_exp(psi, two_n, q).val = 1
       /\ \A d \in ProperDivisors(two_n) : mod_exp(psi, d, q).val # 1

C4_FriendlyIffPrimeAndResidue ==
    (fn = "is_ntt_friendly_prime" /\ 2 * args[2] <= MaxU) =>
        /\ ret.tag = "ok"
        /\ ret.bool <=> (/\ args[1] >= 2 /\ args[2] >= 1
                        /\ args[1] % (2 * args[2]) = 1
                        /\ IsPrimeMath(args[1]))

(***************************************************************************)
(* C5: out-of-range parameters give an empty result and never a panic:     *)
(* logq < 2 or n < 1 gives None from get_first_prime_down and the empty    *)
(* sequence from get_primes_down, with no candidate computed; q < 2 or     *)
(* n < 1 gives None from find_primitive_root and false from                *)
(* is_ntt_friendly_prime, under either build profile.                      *)
(***************************************************************************)
C5_OutOfRangeIsEmpty ==
    /\ (fn = "get_first_prime_down" /\ (args[1] < 2 \/ args[2] < 1)) =>
           ret.tag = "ok" /\ ret.val = None /\ ret.cands = <<>>
    /\ (fn = "get_primes_down" /\ (args[1] < 2 \/ args[2] < 1)) =>
           ret.tag = "ok" /\ ret.val = <<>> /\ ret.cands = <<>>
    /\ (fn = "find_primitive_root" /\ (args[1] < 2 \/ args[2] < 1)) =>
           ret.tag = "ok" /\ ret.val = None
    /\ (fn = "is_ntt_friendly_prime" /\ (args[1] < 2 \/ args[2] < 1)) =>
           ret.tag = "ok" /\ ret.bool = FALSE

\* The predicate was asked about a modulus q >= 2 with n == 0, where 2n == 0
\* would be a zero divisor.
C5_Witness ==
    /\ fn = "is_ntt_friendly_prime" /\ args[1] >= 2 /\ args[2] = 0
    /\ ret.tag = "ok"

(***************************************************************************)
(* C6: is_prime(n) returns a boolean for every n of the word without the   *)
(* product i*i or the increment i + 2 ever exceeding 2^W - 1.  With        *)
(* overflow checks an exceeding product is a panic.                        *)
(***************************************************************************)
C6_IsPrimeNeverOverflows ==
    fn = "is_prime" => ret.tag = "ok" /\ ret.bool \in BOOLEAN

(***************************************************************************)
(* C7: prime_factors(n) terminates with the empty factor set for n == 0    *)
(* and n == 1, and is_generator(g, p) terminates when p - 1 is 0 or 1.     *)
(***************************************************************************)
C7_PrimeFactorsTerminates ==
    /\ (fn = "prime_factors" /\ args[1] \in {0, 1})
           ~> (fn = "prime_factors" /\ pc = "done" /\ ret.tag = "ok" /\ ret.val = <<>>)
    /\ (fn = "is_generator" /\ args[2] \in {1, 2}) ~> (pc = "done")

(***************************************************************************)
(* C8: for all base, exp and modulus of the word with modulus >= 1,        *)
(* mod_exp returns base^exp mod modulus, the value is below modulus, and   *)
(* every product it forms is below 2^(2W).                                 *)
(***************************************************************************)
C8_ModExpExact ==
    (fn = "mod_exp" /\ args[3] >= 1) =>
        /\ ret.tag = "ok"
        /\ ret.val = PowMod(args[1], args[2], args[3])
        /\ ret.val < args[3]
        /\ ret.peak < Pow2(2 * W)

\* An exponentiation that formed a product wider than the word.
C8_Witness ==
    /\ fn = "mod_exp" /\ args[3] >= 1 /\ args[2] >= 2
    /\ ret.tag = "ok" /\ ret.peak > MaxU

(***************************************************************************)
(* C9 as claimed: for every q and n, find_primitive_root(q, n) returns     *)
(* None exactly when is_ntt_friendly_prime(q, n) is false; when it is true *)
(* is_generator accepts exactly the g of order q - 1 and the result is     *)
(* Some(g0^((q-1)/(2n)) mod q) for the smallest g0 >= 2 of order q - 1.    *)
(***************************************************************************)
RootFromSmallestGenerator ==
    LET q == args[1]
        n == args[2]
        friendly == is_ntt_friendly_prime(overflow_checks, q, n)
    IN /\ (ret.tag = "ok" /\ ret.val = None) <=> (friendly.tag = "ok" /\ ~friendly.bool)
       /\ (friendly.tag = "ok" /\ friendly.bool) =>
              /\ \A g \in 2..(q - 1) :
                     LET gen == is_generator(overflow_checks, g, q) IN
                     gen.tag = "ok" /\ (gen.bool <=> HasOrder(g, q, q - 1))
              /\ \E g0 \in 2..(q - 1) :
                     /\ HasOrder(g0, q, q - 1)
                     /\ \A h \in 2..(g0 - 1) : ~HasOrder(h, q, q - 1)
                     /\ ret.tag = "ok"
                     /\ ret.val = Some(PowMod(g0, (q - 1) \div (2 * n), q))

LargestPrimesDown ==
    LET logq == args[1]
        n == args[2]
        count == args[3]
        first == get_first_prime_down(overflow_checks, logq, n)
    IN /\ ret.tag = "ok"
       /\ ret.val = Take(Descending(Qualifying(logq, n)), count)
       /\ first.tag = "ok"
       /\ first.val = Take(ret.val, 1)
       /\ \A k \in 1..Len(ret.cands) :
              ret.cands[k] >= 1 /\ ret.cands[k] % (2 * n) = 1

====
